---- MODULE Spec2Model ----
(***************************************************************************)
(* MyTicComponent (my_tic_component.h): a TeleInfo reader for ESPHome.     *)
(* loop() frames the bytes of the UART into candidate records,             *)
(* processString() splits a record and verifies its checksum,              *)
(* processCommand() stores the value and marks the field as updated,       *)
(* update() publishes the updated fields, write_state() is the switch.     *)
(*                                                                         *)
(* Characters are their ASCII codes, an Arduino String is a sequence of    *)
(* codes.  Indices of the String operations are 0-based as in the source.  *)
(* A float holding a decimal payload is the integer it denotes (the        *)
(* payloads of the model are small integers, exact in a float).            *)
(*                                                                         *)
(* A loop() call is one step: the bytes it reads are those in the UART     *)
(* receive buffer, and bytes that arrive while it runs are bytes delivered *)
(* before it.  Three specifications share the actions:                     *)
(*   Spec      the pipeline, every transmission reaching the UART whole;   *)
(*   SpecFrag  the pipeline, the bytes reaching the UART in any pieces;    *)
(*   SpecParse processString called directly on a set of records.          *)
(*   SpecScale the pipeline on records of the numeric labels.              *)
(*   SpecFrame the framer on long lines, line feeds and several records.   *)
(*   SpecFirst the pipeline on records that carry the initial values.      *)
(***************************************************************************)
EXTENDS Integers, Sequences, FiniteSets, TLC

VARIABLES
    enable,      \* bool enable
    sw,          \* state published for the Switch, "unset" before setup()
    charSigned,  \* whether plain char is signed in this build
    val,         \* the value fields: adco, base, ... (one per label)
    updated,     \* the *_updated flags
    pub,         \* last state published to each sensor: <<>> or <<state>>
    wire,        \* bytes the meter has sent that have not reached the UART
    rx,          \* bytes in the UART receive buffer (available() / read())
    nsent,       \* number of transmissions of the meter so far
    handed,      \* argument of processString in the last loop(), <<>> if none
    applied,     \* processCommand calls of the last loop() / processString()
    drained,     \* what the last update() published, in order
    atDrain,     \* the value fields as they were at the last drain, that
                 \* is the last update() call made while enable was true
    sinceUpdate, \* "start": no update() call and no processCommand call yet;
                 \* "applied": processCommand was called after the last
                 \* update() call; otherwise no processCommand call since
                 \* "skipped": an update() call without enable,
                 \* "drained": an update() call with enable,
                 \* "again": an update() call that followed one with enable
    fed,         \* the bytes unread or sent at the last transmission: what
                 \* loop() has had to read since then
    recs         \* the records handed to processString since then, in order

vars == <<enable, sw, charSigned, val, updated, pub, wire, rx, nsent,
          handed, applied, drained, atDrain, sinceUpdate, fed, recs>>

-----------------------------------------------------------------------------
(* Characters *)

CR == 13
LF == 10
SP == 32
MaxBuff == 50

(* Bounds of the model *)
MaxMsgs == 3        \* transmissions in Spec (each delivered whole)
MaxFragMsgs == 1    \* transmissions in SpecFrag (delivered in any pieces)
MaxScaleMsgs == 2   \* transmissions in SpecScale (each delivered whole)
MaxFrameMsgs == 2   \* transmissions in SpecFrame (each delivered whole)
MaxFirstMsgs == 3   \* transmissions in SpecFirst (each delivered whole)

-----------------------------------------------------------------------------
(* Arduino String operations used by the component *)

\* String::indexOf(char): 0-based index of the first occurrence, -1 if none
RECURSIVE IndexFrom(_, _, _)
IndexFrom(s, ch, i) ==
    IF i > Len(s) THEN -1
    ELSE IF s[i] = ch THEN i - 1
    ELSE IndexFrom(s, ch, i + 1)

IndexOf(s, ch) == IndexFrom(s, ch, 1)

Min(a, b) == IF a < b THEN a ELSE b

\* String::substring(left, right): characters left .. right-1 (0-based)
Substring(s, left, right) ==
    LET l == Min(left, right)
        r0 == IF left > right THEN left ELSE right
        r == Min(r0, Len(s))
    IN  IF l >= Len(s) THEN <<>> ELSE SubSeq(s, l + 1, r)

\* String::substring(left) == substring(left, length())
SubstringFrom(s, left) == Substring(s, left, Len(s))

\* String::operator[]: the character at a 0-based index, 0 when out of range
CharAt(s, i) == IF i >= 0 /\ i < Len(s) THEN s[i + 1] ELSE 0

IsDigit(c) == c >= 48 /\ c <= 57

\* String::toFloat() on the payloads of the model: the decimal number at the
\* start of the string, 0.0 when the string does not start with a number
RECURSIVE DigitsValue(_, _, _)
DigitsValue(s, i, acc) ==
    IF i > Len(s) \/ ~IsDigit(s[i]) THEN acc
    ELSE DigitsValue(s, i + 1, acc * 10 + (s[i] - 48))

\* a conversion that looks for the number anywhere in the string
ToFloatAnywhere(s) ==
    IF \E i \in 1..Len(s) : IsDigit(s[i])
    THEN DigitsValue(s, CHOOSE i \in 1..Len(s) :
                            /\ IsDigit(s[i])
                            /\ \A j \in 1..(i - 1) : ~IsDigit(s[j]), 0)
    ELSE 0

ToFloat(s) == DigitsValue(s, 1, 0)

-----------------------------------------------------------------------------
(* Labels *)

ADCO    == <<65, 68, 67, 79>>
OPTARIF == <<79, 80, 84, 65, 82, 73, 70>>
IINST   == <<73, 73, 78, 83, 84>>
ISOUSC  == <<73, 83, 79, 85, 83, 67>>
PAPP    == <<80, 65, 80, 80>>
BASE    == <<66, 65, 83, 69>>
HCHC    == <<72, 67, 72, 67>>
HCHP    == <<72, 67, 72, 80>>
EJPHN   == <<69, 74, 80, 72, 78>>
EJPHPM  == <<69, 74, 80, 72, 80, 77>>
PTEC    == <<80, 84, 69, 67>>
IMAX    == <<73, 77, 65, 88>>
HHPHC   == <<72, 72, 80, 72, 67>>

TextFields == {"adco", "optarif", "ptec", "hhphc"}
NumFields == {"iinst", "isousc", "papp", "base", "hchc", "hchp", "ejphn",
              "ejphpm", "imax"}
Fields == TextFields \cup NumFields

LabelOf(f) ==
    CASE f = "adco" -> ADCO
      [] f = "optarif" -> OPTARIF
      [] f = "iinst" -> IINST
      [] f = "isousc" -> ISOUSC
      [] f = "papp" -> PAPP
      [] f = "base" -> BASE
      [] f = "hchc" -> HCHC
      [] f = "hchp" -> HCHP
      [] f = "ejphn" -> EJPHN
      [] f = "ejphpm" -> EJPHPM
      [] f = "ptec" -> PTEC
      [] f = "imax" -> IMAX
      [] f = "hhphc" -> HHPHC

-----------------------------------------------------------------------------
(* processCommand *)

\* SetText without field_updated = true
SetTextNoFlag(st, f, value) ==
    IF st.val[f] # value
    THEN [val |-> [st.val EXCEPT ![f] = value], updated |-> st.updated]
    ELSE st

\* SetText without the comparison with the stored value
SetTextAlwaysFlags(st, f, value) ==
    [val |-> [st.val EXCEPT ![f] = value],
     updated |-> [st.updated EXCEPT ![f] = TRUE]]

\* if (field != value) { field = value; field_updated = true; }
SetText(st, f, value) ==
    IF st.val[f] # value
    THEN [val |-> [st.val EXCEPT ![f] = value],
          updated |-> [st.updated EXCEPT ![f] = TRUE]]
    ELSE st

\* SetNum without the comparison with the stored value
SetNumAlwaysFlags(st, f, value) ==
    [val |-> [st.val EXCEPT ![f] = ToFloat(value)],
     updated |-> [st.updated EXCEPT ![f] = TRUE]]

\* SetNum without field_updated = true
SetNumNoFlag(st, f, value) ==
    IF st.val[f] # ToFloat(value)
    THEN [val |-> [st.val EXCEPT ![f] = ToFloat(value)], updated |-> st.updated]
    ELSE st

\* if (field != value.toFloat()) { field = value.toFloat(); field_updated = true; }
SetNum(st, f, value) ==
    IF st.val[f] # ToFloat(value)
    THEN [val |-> [st.val EXCEPT ![f] = ToFloat(value)],
          updated |-> [st.updated EXCEPT ![f] = TRUE]]
    ELSE st

\* processCommand taking every label it does not know for HHPHC
ProcessCommandFallThrough(st, label, value) ==
    IF label = ADCO THEN SetText(st, "adco", value)
    ELSE IF label = BASE THEN SetNum(st, "base", value)
    ELSE SetText(st, "hhphc", value)

\* processCommand(label, value) on the store st = [val, updated]
ProcessCommand(st, label, value) ==
    IF label = ADCO THEN SetText(st, "adco", value)
    ELSE IF label = BASE THEN SetNum(st, "base", value)
    ELSE IF label = ISOUSC THEN SetNum(st, "isousc", value)
    ELSE IF label = IINST THEN SetNum(st, "iinst", value)
    ELSE IF label = PAPP THEN SetNum(st, "papp", value)
    ELSE IF label = OPTARIF THEN SetText(st, "optarif", value)
    ELSE IF label = HCHC THEN SetNum(st, "hchc", value)
    ELSE IF label = HCHP THEN SetNum(st, "hchp", value)
    ELSE IF label = EJPHN THEN SetNum(st, "ejphn", value)
    ELSE IF label = EJPHPM THEN SetNum(st, "ejphpm", value)
    ELSE IF label = PTEC THEN SetText(st, "ptec", value)
    ELSE IF label = IMAX THEN SetNum(st, "imax", value)
    ELSE IF label = HHPHC THEN SetText(st, "hhphc", value)
    ELSE st

-----------------------------------------------------------------------------
(* processString *)

\* conversion of an int to char: 8 bits, signed or unsigned
ToChar(x, signed) ==
    LET u == x % 256
    IN  IF signed /\ u >= 128 THEN u - 256 ELSE u

\* for (int i = 0; i < str.length() - 2; i++) checksum = checksum + str[i];
RECURSIVE CharSum(_, _, _, _, _)
CharSum(str, i, bound, checksum, signed) ==
    IF i < bound
    THEN CharSum(str, i + 1, bound,
                 ToChar(checksum + ToChar(CharAt(str, i), signed), signed),
                 signed)
    ELSE checksum

\* the loop bound of the revision that sums the whole record
ChecksumBoundWhole(str) == Len(str)

\* the loop bound of the checksum: i < str.length() - 2 (str holds two
\* separators, so the unsigned str.length() - 2 does not wrap)
ChecksumBound(str) == Len(str) - 2

\* checksum = (checksum & 0x3F) + 0x20
Checksum(str, signed) ==
    (CharSum(str, 0, ChecksumBound(str), 0, signed) % 64) + 32

\* the comparison on the 6 low bits only
ChecksumMatchesLowBits(str, signed) ==
    CharAt(str, Len(str) - 1) % 64 = Checksum(str, signed) % 64

\* the revision that computes the checksum and does not compare it
ChecksumIgnored(str, signed) == TRUE

\* if (str[str.length() - 1] == checksum)
ChecksumMatches(str, signed) ==
    ToChar(CharAt(str, Len(str) - 1), signed) = Checksum(str, signed)

\* processString without the test for the second separator: the value is
\* all that follows the first one
ProcessStringOneSeparator(str, signed) ==
    IF IndexOf(str, SP) > -1
    THEN LET label == Substring(str, 0, IndexOf(str, SP))
             value == SubstringFrom(str, IndexOf(str, SP) + 1)
         IN  IF ChecksumMatches(str, signed)
             THEN << [label |-> label, value |-> value] >>
             ELSE <<>>
    ELSE <<>>

\* processString(str): the sequence of processCommand calls it makes
\* (empty, or one call with its label and value)
ProcessString(str, signed) ==
    IF IndexOf(str, SP) > -1
    THEN LET label == Substring(str, 0, IndexOf(str, SP))
             rest == SubstringFrom(str, IndexOf(str, SP) + 1)
         IN  IF IndexOf(rest, SP) > -1
             THEN LET value == Substring(rest, 0, IndexOf(rest, SP))
                  IN  IF ChecksumMatches(str, signed)
                      THEN << [label |-> label, value |-> value] >>
                      ELSE <<>>
             ELSE <<>>
    ELSE <<>>

\* the store after the processCommand calls in calls
ApplyCalls(st, calls) ==
    IF calls = <<>> THEN st
    ELSE ProcessCommand(st, calls[1].label, calls[1].value)

-----------------------------------------------------------------------------
(* loop(): the framer *)

\* the while loop clearing the buffer at twice the length
RECURSIVE ReadLoopWideGuard(_, _)
ReadLoopWideGuard(buff, avail) ==
    IF avail = <<>> THEN [buff |-> buff, rest |-> avail]
    ELSE LET c == Head(avail)
         IN  IF c = CR THEN [buff |-> buff, rest |-> Tail(avail)]
             ELSE LET b == Append(buff, c)
                  IN  IF c = LF \/ Len(b) > 2 * MaxBuff
                      THEN ReadLoopWideGuard(<<>>, Tail(avail))
                      ELSE ReadLoopWideGuard(b, Tail(avail))

\* the while loop without the test of '\n'
RECURSIVE ReadLoopNoReset(_, _)
ReadLoopNoReset(buff, avail) ==
    IF avail = <<>> THEN [buff |-> buff, rest |-> avail]
    ELSE LET c == Head(avail)
         IN  IF c = CR THEN [buff |-> buff, rest |-> Tail(avail)]
             ELSE LET b == Append(buff, c)
                  IN  IF Len(b) > MaxBuff
                      THEN ReadLoopNoReset(<<>>, Tail(avail))
                      ELSE ReadLoopNoReset(b, Tail(avail))

\* the while loop going on when '\r' comes on an empty buffer
RECURSIVE ReadLoopSkipsEmpty(_, _)
ReadLoopSkipsEmpty(buff, avail) ==
    IF avail = <<>> THEN [buff |-> buff, rest |-> avail]
    ELSE LET c == Head(avail)
         IN  IF c = CR
             THEN IF buff = <<>> THEN ReadLoopSkipsEmpty(buff, Tail(avail))
                  ELSE [buff |-> buff, rest |-> Tail(avail)]
             ELSE LET b == Append(buff, c)
                  IN  IF c = LF \/ Len(b) > MaxBuff
                      THEN ReadLoopSkipsEmpty(<<>>, Tail(avail))
                      ELSE ReadLoopSkipsEmpty(b, Tail(avail))

\* the while loop of loop(): buff is the local buffer, avail the bytes that
\* read() will return.  Result: the buffer after the loop and the bytes left.
RECURSIVE ReadLoop(_, _)
ReadLoop(buff, avail) ==
    IF avail = <<>> THEN [buff |-> buff, rest |-> avail]
    ELSE LET c == Head(avail)
         IN  IF c = CR THEN [buff |-> buff, rest |-> Tail(avail)]
             ELSE LET b == Append(buff, c)
                  IN  IF c = LF \/ Len(b) > MaxBuff
                      THEN ReadLoop(<<>>, Tail(avail))
                      ELSE ReadLoop(b, Tail(avail))


-----------------------------------------------------------------------------
(* The meter: what arrives on the serial line *)

RECURSIVE SumCodes(_)
SumCodes(s) == IF s = <<>> THEN 0 ELSE Head(s) + SumCodes(Tail(s))

\* the checksum character of the TeleInfo rule for the characters body:
\* the sum of the codes, its 6 low bits, plus 0x20
RuleChecksum(body) == (SumCodes(body) % 64) + 32

\* the record "LABEL VALUE C" with its checksum per the rule
Record(label, value) ==
    LET body == label \o <<SP>> \o value
    IN  body \o <<SP, RuleChecksum(body)>>

\* the same record with another last character
BadRecord(label, value) ==
    LET body == label \o <<SP>> \o value
    IN  body \o <<SP, RuleChecksum(body) + 1>>

FOO == <<70, 79, 79>>

\* transmissions of the meter in the pipeline specification
Messages ==
    { Record(ADCO, <<49>>) \o <<CR>>,                 \* "ADCO 1 H\r"
      Record(ADCO, <<50>>),                            \* "ADCO 2 I", no \r
      <<LF>> \o Record(BASE, <<55>>) \o <<CR>>,       \* "\nBASE 7 R\r"
      Record(BASE, <<48>>) \o <<CR>>,                  \* "BASE 0 K\r"
      BadRecord(ADCO, <<50>>) \o <<CR>>,               \* wrong checksum
      Record(FOO, <<49>>) \o <<CR>>,                   \* label not in the schema
      <<CR>> }

\* transmissions of the meter in the fragmented specification
FragMessages ==
    { Record(ADCO, <<49>>) \o <<CR>>,                 \* "ADCO 1 H\r"
      Record(ADCO, <<50>>),                            \* "ADCO 2 I", no \r
      <<LF>> \o Record(BASE, <<55>>) \o <<CR>>,       \* "\nBASE 7 R\r"
      BadRecord(ADCO, <<50>>) \o <<CR>> }              \* wrong checksum

\* n characters that are no separator, '\r' or '\n'
Junk(n) == [i \in 1..n |-> 88]

\* transmissions of the meter in the specification of the framer
FrameMessages ==
    { Junk(51) \o Record(ADCO, <<49>>) \o <<CR>>,      \* 51 characters, a record
      Junk(50) \o <<CR>>,                               \* a line of 50 characters
      Junk(51) \o <<CR>>,                               \* a line of 51 characters
      Junk(30) \o <<LF>> \o Junk(30) \o <<CR>>,         \* 61 characters, \n inside
      <<CR, CR>>,
      <<88, 89>>,                                       \* "XY", no \r
      <<88, 89, LF>> \o Record(BASE, <<55>>) \o <<CR>>, \* "XY\nBASE 7 R\r"
      Record(ADCO, <<49>>) \o <<CR>> \o Record(BASE, <<55>>) \o <<CR>> }

\* transmissions of the meter in the specification of the first records:
\* "BASE 0", "BASE 00", "BASE 7", "ADCO " (empty value), "ADCO 1" and
\* "PTEC " (empty value), each with its checksum and '\r'
FirstMessages ==
    { Record(BASE, <<48>>) \o <<CR>>,
      Record(BASE, <<48, 48>>) \o <<CR>>,
      Record(BASE, <<55>>) \o <<CR>>,
      Record(ADCO, <<>>) \o <<CR>>,
      Record(ADCO, <<49>>) \o <<CR>>,
      Record(PTEC, <<>>) \o <<CR>> }

\* transmissions of the meter in the specification of the numeric labels:
\* "LABEL 07 C\r" for each of them, and "BASE 012345678 C\r"
ScaleMessages ==
    {Record(LabelOf(f), <<48, 55>>) \o <<CR>> : f \in NumFields}
    \cup {Record(BASE, <<48, 49, 50, 51, 52, 53, 54, 55, 56>>) \o <<CR>>}

\* arguments of direct calls of processString: records "LABEL VALUE C" with
\* the checksum of the rule, with another last character, and with one
\* separator only
adcoLower == <<97, 100, 99, 111>>
ADC == <<65, 68, 67>>
ADCOO == <<65, 68, 67, 79, 79>>
Tokens == {<<>>} \cup {<<a>> : a \in {65, 49}}
             \cup {<<a, b>> : a \in {65, 49}, b \in {65, 49}}
ParseLabels == Tokens \cup {adcoLower, ADC, ADCOO}
ParseValues == Tokens
\* arguments without a separator, the last one ending with the character
\* the checksum loop of processString would compute for it
NoSeparator == {ADCO, <<65, 49>>, <<65, 65, 33>>}

\* arguments with one separator: "ADCO 1AH" and "A 1A2" end with the
\* character the checksum loop of processString computes for them
OneSeparator ==
    { ADCO \o <<SP, 49, 65, 72>>,
      <<65, SP, 49, 65, 50>>,
      <<SP, 49>>,
      <<49, SP>> }

\* c with bit k flipped
FlipBit(c, k) == IF (c \div (2 ^ k)) % 2 = 1 THEN c - 2 ^ k ELSE c + 2 ^ k

\* str with bit k of its last character flipped
FlipLast(str, k) == [str EXCEPT ![Len(str)] = FlipBit(@, k)]

\* records with the checksum of the rule: "A  !", "A _  " and "A L M" have a
\* checksum that a flipped bit turns into a space, NUL and '\r'
FlipBase ==
    { Record(ADCO, <<49>>), Record(BASE, <<55>>), Record(<<65>>, <<49>>),
      Record(<<65>>, <<>>), Record(<<65>>, <<95>>), Record(<<65>>, <<76>>) }

\* the same records with one bit of the last character flipped
Flipped == {FlipLast(r, k) : r \in FlipBase, k \in 0..7}

ParseInputs ==
    {Record(l, v) : l \in ParseLabels, v \in ParseValues}
    \cup {Record(ADCO, v) : v \in {<<49>>, <<65, 49>>}}
    \cup {Record(BASE, v) : v \in {<<49>>, <<65>>}}
    \cup {Record(BASE, v) : v \in {<<>>, <<49, 65>>, <<65, 49>>}}
    \cup {Record(IMAX, <<65>>)}
    \cup {BadRecord(l, v) : l \in {ADCO, BASE, <<65>>}, v \in {<<49>>, <<65>>}}
    \cup {l \o <<SP>> \o v : l \in {ADCO, <<65>>}, v \in {<<49>>, <<49, 33>>}}
    \cup NoSeparator
    \cup OneSeparator
    \cup FlipBase
    \cup Flipped

-----------------------------------------------------------------------------
(* State *)

Store == [val |-> val, updated |-> updated]

InitVal == [f \in Fields |-> IF f \in TextFields THEN <<>> ELSE 0]

Init ==
    /\ enable = FALSE
    /\ sw = "unset"
    /\ charSigned \in BOOLEAN
    /\ val = InitVal
    /\ updated = [f \in Fields |-> FALSE]
    /\ pub = [f \in Fields |-> <<>>]
    /\ wire = <<>>
    /\ rx = <<>>
    /\ nsent = 0
    /\ handed = <<>>
    /\ applied = <<>>
    /\ drained = <<>>
    /\ atDrain = InitVal
    /\ sinceUpdate = "start"
    /\ fed = <<>>
    /\ recs = <<>>

-----------------------------------------------------------------------------
(* Actions *)

\* publish_state(state) of the Switch
SwitchState(state) == IF state THEN "on" ELSE "off"

\* setup(): publish_state(enable)
Setup ==
    /\ sw = "unset"
    /\ sw' = SwitchState(enable)
    /\ UNCHANGED <<enable, charSigned, val, updated, pub, wire, rx, nsent,
                   handed, applied, drained, atDrain, sinceUpdate, fed, recs>>

\* write_state(state)
WriteState(state) ==
    /\ sw # "unset"
    /\ enable' = state
    /\ sw' = SwitchState(state)
    /\ UNCHANGED <<charSigned, val, updated, pub, wire, rx, nsent,
                   handed, applied, drained, atDrain, sinceUpdate, fed, recs>>

\* the meter starts sending m, if it has sent fewer than limit transmissions
Transmit(m, limit) ==
    /\ wire = <<>>
    /\ nsent < limit
    /\ wire' = m
    /\ nsent' = nsent + 1
    /\ fed' = rx \o m
    /\ recs' = <<>>
    /\ UNCHANGED <<enable, sw, charSigned, val, updated, pub, rx,
                   handed, applied, drained, atDrain, sinceUpdate>>

\* the next n bytes reach the UART receive buffer
Deliver(n) ==
    /\ n \in 1..Len(wire)
    /\ rx' = rx \o SubSeq(wire, 1, n)
    /\ wire' = SubSeq(wire, n + 1, Len(wire))
    /\ UNCHANGED <<enable, sw, charSigned, val, updated, pub, nsent,
                   handed, applied, drained, atDrain, sinceUpdate, fed, recs>>

\* the processCommand calls in calls, on the store and its observers
Dispatch(calls) ==
    LET st == ApplyCalls(Store, calls)
    IN  /\ applied' = calls
        /\ val' = st.val
        /\ updated' = st.updated
        /\ sinceUpdate' = IF calls # <<>> THEN "applied" ELSE sinceUpdate

\* loop() without the test of enable
LoopUngated ==
    /\ sw # "unset"
    /\ LET r == ReadLoop(<<>>, rx)
       IN  /\ rx' = r.rest
           /\ handed' = r.buff
           /\ recs' = IF r.buff # <<>> THEN Append(recs, r.buff) ELSE recs
           /\ Dispatch(IF r.buff # <<>>
                       THEN ProcessString(r.buff, charSigned) ELSE <<>>)
    /\ UNCHANGED <<enable, sw, charSigned, pub, wire, nsent, drained, atDrain,
                   fed>>

\* loop()
Loop ==
    /\ sw # "unset"
    /\ IF enable
       THEN LET r == ReadLoop(<<>>, rx)
            IN  /\ rx' = r.rest
                /\ handed' = r.buff
                /\ recs' = IF r.buff # <<>> THEN Append(recs, r.buff) ELSE recs
                /\ Dispatch(IF r.buff # <<>>
                            THEN ProcessString(r.buff, charSigned) ELSE <<>>)
       ELSE UNCHANGED <<rx, handed, recs, applied, val, updated, sinceUpdate>>
    /\ UNCHANGED <<enable, sw, charSigned, pub, wire, nsent, drained, atDrain,
                   fed>>

\* update() without the block of base
UpdateOrderNoBase ==
    <<"adco", "hchc", "hchp", "ejphn", "ejphpm", "imax", "isousc",
      "iinst", "papp", "optarif", "ptec", "hhphc">>

\* the order in which update() looks at the fields
UpdateOrder ==
    <<"adco", "base", "hchc", "hchp", "ejphn", "ejphpm", "imax", "isousc",
      "iinst", "papp", "optarif", "ptec", "hhphc">>

\* update() dividing base, hchc and hchp only
ScaledFieldsNoEjp == {"base", "hchc", "hchp"}

\* the fields update() publishes divided by 1000.0
ScaledFields == {"base", "hchc", "hchp", "ejphn", "ejphpm"}

\* String::c_str() as the sensor reads it: the characters before the first NUL
CStr(v) == IF IndexOf(v, 0) > -1 THEN Substring(v, 0, IndexOf(v, 0)) ELSE v

\* the state update() publishes for field f holding v: a text s, or a number
\* as numerator n and divisor d
Published(f, v) ==
    IF f \in TextFields THEN [s |-> CStr(v)]
    ELSE IF f \in ScaledFields THEN [n |-> v, d |-> 1000]
    ELSE [n |-> v, d |-> 1]

IsDirty(f) == updated[f]

\* the fields update() publishes, in order, each with the state published
Drain ==
    LET dirty == SelectSeq(UpdateOrder, IsDirty)
    IN  [i \in 1..Len(dirty) |->
           [field |-> dirty[i], state |-> Published(dirty[i], val[dirty[i]])]]

Handled(f) == \E i \in 1..Len(UpdateOrder) : UpdateOrder[i] = f

\* what update() does to the flags of the fields it publishes
ClearedKept(f) == updated[f]

Cleared(f) == FALSE

\* update()
Update ==
    /\ sw # "unset"
    /\ IF enable
       THEN /\ drained' = Drain
            /\ pub' = [f \in Fields |->
                         IF Handled(f) /\ updated[f]
                         THEN <<Published(f, val[f])>> ELSE pub[f]]
            /\ updated' = [f \in Fields |->
                             IF Handled(f) /\ updated[f] THEN Cleared(f)
                             ELSE updated[f]]
            /\ atDrain' = val
       ELSE /\ drained' = <<>>
            /\ UNCHANGED <<pub, updated, atDrain>>
    /\ sinceUpdate' = IF sinceUpdate \in {"drained", "again"} THEN "again"
                      ELSE IF enable THEN "drained" ELSE "skipped"
    /\ UNCHANGED <<enable, sw, charSigned, val, wire, rx, nsent,
                   handed, applied, fed, recs>>

\* The pipeline, each transmission reaching the UART whole
Next ==
    \/ Setup
    \/ \E s \in BOOLEAN : WriteState(s)
    \/ \E m \in Messages : Transmit(m, MaxMsgs)
    \/ Deliver(Len(wire))
    \/ Loop
    \/ Update

Spec == Init /\ [][Next]_vars

\* The pipeline, the bytes of a transmission reaching the UART in any pieces
NextFrag ==
    \/ Setup
    \/ \E s \in BOOLEAN : WriteState(s)
    \/ \E m \in FragMessages : Transmit(m, MaxFragMsgs)
    \/ \E n \in 1..Len(wire) : Deliver(n)
    \/ Loop
    \/ Update

SpecFrag == Init /\ [][NextFrag]_vars

\* The pipeline on the records of the numeric labels, each transmission
\* reaching the UART whole
NextScale ==
    \/ Setup
    \/ \E s \in BOOLEAN : WriteState(s)
    \/ \E m \in ScaleMessages : Transmit(m, MaxScaleMsgs)
    \/ Deliver(Len(wire))
    \/ Loop
    \/ Update

SpecScale == Init /\ [][NextScale]_vars

\* The framer: loop() on long lines, line feeds and several records, each
\* transmission reaching the UART whole
NextFrame ==
    \/ Setup
    \/ \E s \in BOOLEAN : WriteState(s)
    \/ \E m \in FrameMessages : Transmit(m, MaxFrameMsgs)
    \/ Deliver(Len(wire))
    \/ Loop

SpecFrame == Init /\ [][NextFrame]_vars

\* The pipeline on records that carry the initial values of the fields, each
\* transmission reaching the UART whole
NextFirst ==
    \/ Setup
    \/ \E s \in BOOLEAN : WriteState(s)
    \/ \E m \in FirstMessages : Transmit(m, MaxFirstMsgs)
    \/ Deliver(Len(wire))
    \/ Loop
    \/ Update

SpecFirst == Init /\ [][NextFirst]_vars

\* processString(str) called directly
CallProcessString(str) ==
    /\ handed' = str
    /\ Dispatch(ProcessString(str, charSigned))
    /\ UNCHANGED <<enable, sw, charSigned, pub, wire, rx, nsent, drained,
                   atDrain, fed, recs>>

\* The parser alone, on the arguments of ParseInputs
NextParse == \E str \in ParseInputs : CallProcessString(str)

SpecParse == Init /\ [][NextParse]_vars


-----------------------------------------------------------------------------
(* Properties *)

NoCR(bytes) == \A i \in 1..Len(bytes) : bytes[i] # CR

NoSpace(t) == \A i \in 1..Len(t) : t[i] # SP

\* the last character of str is the checksum of the rule over the characters
\* at indices 0 .. length-3
RuleMatches(str) ==
    /\ Len(str) >= 1
    /\ str[Len(str)] = RuleChecksum(SubSeq(str, 1, Len(str) - 2))

\* the records loop() hands over when all of bytes is available from the
\* start and loop() is called until nothing is left
RECURSIVE WholeRecords(_)
WholeRecords(bytes) ==
    IF bytes = <<>> THEN <<>>
    ELSE LET r == ReadLoop(<<>>, bytes)
         IN  (IF r.buff # <<>> THEN <<r.buff>> ELSE <<>>) \o WholeRecords(r.rest)

SchemaLabels == {LabelOf(f) : f \in Fields}

\* the state published for field f carries the value the field holds
Carries(state, f) ==
    IF f \in TextFields THEN state = [s |-> val[f]]
    ELSE state.n = val[f] /\ state.d \in {1, 1000}

\* the drain d publishes field f with the value it holds
InDrain(f, d) == \E i \in 1..Len(d) : d[i].field = f /\ Carries(d[i].state, f)

\* C1: in every loop() call, processCommand is called only for a record whose
\* last character is the checksum of the rule over indices 0 .. length-3, and
\* a record whose checksum does not match changes no value and no flag.
\* (written as  consequence \/ ~Loop,  which is  Loop => consequence)
C1_ChecksumGate ==
    [][\/ /\ (applied' # <<>> => RuleMatches(handed'))
          /\ ((handed' # <<>> /\ ~RuleMatches(handed'))
                => (val' = val /\ updated' = updated))
       \/ ~Loop]_vars

\* C1 witness: the record with the wrong checksum was handed to processString
\* and dropped.
C1_Witness ==
    /\ handed = BadRecord(ADCO, <<50>>)
    /\ applied = <<>>
    /\ val = InitVal

\* C2: bytes holding no '\r' never yield a record: while what loop() has had
\* to read holds no '\r', processString has not been called.
C2_NoRecordWithoutCR == NoCR(fed) => recs = <<>>

\* C3: once loop() has read everything, the records it handed over in its
\* successive calls are those it hands over when all the bytes are there
\* from the start.
C3_Resumable == (wire = <<>> /\ rx = <<>>) => recs = WholeRecords(fed)

\* C4: a record "LABEL VALUE C", LABEL and VALUE without space and C the
\* checksum of the rule (computed without 8-bit wrap), makes processString
\* call processCommand with exactly (LABEL, VALUE).
C4_WellFormedAccepted ==
    \A i \in 1..Len(handed) :
        LET label == SubSeq(handed, 1, i - 1)
            value == SubSeq(handed, i + 1, Len(handed) - 2)
        IN  ( /\ handed[i] = SP
              /\ Len(handed) >= i + 2
              /\ handed[Len(handed) - 1] = SP
              /\ NoSpace(label)
              /\ NoSpace(value)
              /\ handed[Len(handed)] = RuleChecksum(label \o <<SP>> \o value) )
            => applied = << [label |-> label, value |-> value] >>

\* C4 witness: a well-formed record whose character sum exceeds 8 bits was
\* accepted in a build with signed char.
C4_Witness ==
    /\ applied # <<>>
    /\ handed = Record(applied[1].label, applied[1].value)
    /\ applied[1].label # <<>>
    /\ SumCodes(SubSeq(handed, 1, Len(handed) - 2)) > 255
    /\ charSigned

\* C5 (as claimed): the flag of every field is true exactly when the stored
\* value differs from what it was at the most recent drain, or at start.
C5_DirtyIffChanged ==
    \A f \in Fields : updated[f] <=> (val[f] # atDrain[f])

\* C5 (amended): a field whose stored value differs from what it was at the
\* most recent drain, or at start, has its flag set.
C5_ChangedIsDirty ==
    \A f \in Fields : (val[f] # atDrain[f]) => updated[f]

\* C5 witness: adco was changed after a drain that saw another value.
C5_Witness ==
    /\ atDrain["adco"] # <<>>
    /\ val["adco"] # atDrain["adco"]
    /\ updated["adco"]

\* what a draining update() call does: every flagged field is published with
\* the value it holds, reaches its sensor, and no flag is left
Drains ==
    /\ \A f \in Fields :
          updated[f] =>
              /\ InDrain(f, drained')
              /\ pub'[f] # <<>>
              /\ Carries(pub'[f][1], f)
    /\ \A f \in Fields : ~updated'[f]

\* C6 (as claimed): every update() call publishes every flagged field with
\* its value and leaves no flag.
C6_EveryUpdateDrains == [][Update => Drains]_vars

\* C6 (amended): every update() call made while enable is true publishes
\* every flagged field with its value and leaves no flag.
C6_EnabledUpdateDrains == [][(Update /\ enable) => Drains]_vars

\* C6 witness: an update() call has published two fields and left no flag.
C6_Witness ==
    /\ Len(drained) >= 2
    /\ sinceUpdate = "drained"
    /\ \A f \in Fields : ~updated[f]

\* a loop() call in which processCommand is called
Applies ==
    /\ enable
    /\ applied' # <<>>
    /\ Loop

\* the value a payload denotes for field f
NewValue(f, payload) == IF f \in TextFields THEN payload ELSE ToFloat(payload)

\* Unchanged when the value is the stored one, Updated otherwise
ApplyOutcome(f) ==
    LET v == NewValue(f, applied'[1].value)
    IN  IF v = val[f]
        THEN val' = val /\ updated' = updated
        ELSE /\ val' = [val EXCEPT ![f] = v]
             /\ updated' = [updated EXCEPT ![f] = TRUE]

\* every processCommand call for the label of a field has its outcome
AppliedOutcome ==
    Applies =>
        \A f \in Fields : (applied'[1].label = LabelOf(f)) => ApplyOutcome(f)

FlagCleared == \E f \in Fields : updated[f] /\ ~updated'[f]

AllFlaggedInDrain == \A f \in Fields : updated[f] => InDrain(f, drained')

\* C7 (as claimed): applying the stored value changes nothing, applying
\* another value stores it and sets the flag, and the field is part of the
\* next drain: the flag stays until an update() call, and that call
\* publishes the field with its value.
C7_AppliedThenNextDrain ==
    [][/\ AppliedOutcome
       /\ FlagCleared => Update
       /\ Update => AllFlaggedInDrain]_vars

\* C7 (amended): the same, the field being part of the next update() call
\* made while enable is true, with the value it holds at that call.
C7_AppliedThenEnabledDrain ==
    [][/\ AppliedOutcome
       /\ FlagCleared => (enable /\ Update)
       /\ (enable /\ Update) => AllFlaggedInDrain]_vars

\* C7 witness: the value 2 applied to ADCO has been published by the next
\* draining update() call.
C7_Witness ==
    /\ applied = << [label |-> ADCO, value |-> <<50>>] >>
    /\ sinceUpdate = "drained"
    /\ InDrain("adco", drained)
    /\ pub["adco"] = << [s |-> <<50>>] >>

\* C8: once the bytes of "ADCO 1 H\r" have all been read by loop(), an
\* update() call made while enable is true leaves the sensor of ADCO with
\* the value 1 (this call or an earlier one has published it).
C8_EndToEnd ==
    [][( /\ Update
         /\ enable
         /\ fed = Record(ADCO, <<49>>) \o <<CR>>
         /\ wire = <<>>
         /\ rx = <<>> )
       => pub'["adco"] = << [s |-> <<49>>] >>]_vars

\* C9: a processCommand call for a label that is none of the 13 labels
\* changes no value and no flag.
C9_UnknownLabelIgnored ==
    [][( /\ NextParse
         /\ applied' # <<>>
         /\ applied'[1].label \notin SchemaLabels )
       => (val' = val /\ updated' = updated)]_vars

\* C9 witness: "adco" in lower case was applied after ADCO had been stored,
\* and the store is as it was.
C9_Witness ==
    /\ applied # <<>>
    /\ applied[1].label = adcoLower
    /\ val = [InitVal EXCEPT !["adco"] = <<49>>]
    /\ updated["adco"]

\* C10 (as claimed): an update() call that follows an update() call with no
\* processCommand call between them publishes nothing.
C10_SecondUpdateEmpty ==
    [][(Update /\ sinceUpdate \in {"skipped", "drained", "again"})
       => (drained' = <<>> /\ pub' = pub)]_vars

\* C10 (amended): an update() call that follows an update() call made while
\* enable was true, with no processCommand call between them, publishes
\* nothing.
C10_UpdateAfterDrainEmpty ==
    [][(Update /\ sinceUpdate \in {"drained", "again"})
       => (drained' = <<>> /\ pub' = pub)]_vars

\* C10 witness: a second update() call has published nothing, the first one
\* having published ADCO.
C10_Witness ==
    /\ sinceUpdate = "again"
    /\ drained = <<>>
    /\ pub["adco"] # <<>>

-----------------------------------------------------------------------------
(* Malformed records, the switch, the scale *)

\* the number of separators in str
RECURSIVE SpaceCount(_)
SpaceCount(str) ==
    IF str = <<>> THEN 0
    ELSE (IF Head(str) = SP THEN 1 ELSE 0) + SpaceCount(Tail(str))

\* C11: a processString call on a record with no space or with exactly one
\* space calls processCommand for nothing and changes no value and no flag,
\* whatever the last character of the record is.
C11_MalformedRejected ==
    [][( /\ NextParse
         /\ SpaceCount(handed') <= 1 )
       => (applied' = <<>> /\ val' = val /\ updated' = updated)]_vars

\* C11 witness: "ADCO 1AH", one space and a last character that matches the
\* checksum loop, was dropped after ADCO had been stored.
C11_Witness ==
    /\ handed = ADCO \o <<SP, 49, 65, 72>>
    /\ ChecksumMatches(handed, charSigned)
    /\ applied = <<>>
    /\ val["adco"] # <<>>

\* a is the beginning of b
IsPrefix(a, b) == Len(a) <= Len(b) /\ SubSeq(b, 1, Len(a)) = a

\* C12: while enable is false a loop() call reads no byte, calls neither
\* processString nor processCommand and leaves every value and flag as it
\* is; no step made while enable is false takes a byte out of the UART,
\* hands a record over or changes a value, and enable becomes true by
\* write_state(true) only.
C12_DisabledLoopIdle ==
    [][/\ (~enable /\ Loop)
            => UNCHANGED <<rx, handed, applied, recs, val, updated>>
       /\ ~enable
            => /\ IsPrefix(rx, rx')
               /\ handed' = handed
               /\ applied' = applied
               /\ recs' \in {recs, <<>>}
               /\ val' = val
               /\ updated' = updated
       /\ (~enable /\ enable') => WriteState(TRUE)]_vars

\* C12 witness: after bytes were processed the switch was turned off, and
\* the bytes that arrived since are unread; a loop() call leaves this state
\* as it is.
C12_Witness ==
    /\ ~enable
    /\ sw = "off"
    /\ val["adco"] # <<>>
    /\ rx = fed
    /\ rx # <<>>
    /\ wire = <<>>

\* C13: by default the component reads: enable is true before setup() and
\* any write_state call, and turns false by write_state(false) only.
C13_ReadsByDefault ==
    /\ [](sw = "unset" => enable)
    /\ [][(enable /\ ~enable') => WriteState(FALSE)]_vars

\* the labels of the energy indexes, delivered divided by 1000
EnergyIndexFields == {"base", "hchc", "hchp", "ejphn", "ejphpm"}

\* the state delivered for numeric field f after a record with payload
\* payload: the number the payload denotes over the divisor of the label
Delivered(f, payload) ==
    [n |-> ToFloat(payload), d |-> IF f \in EnergyIndexFields THEN 1000 ELSE 1]

\* C14: when the last loop() call applied a record of a numeric label, what
\* an update() call delivers for that label is the number of the payload
\* divided by 1000 for BASE, HCHC, HCHP, EJPHN and EJPHPM, and the number
\* itself for ISOUSC, IINST, PAPP and IMAX.
\* (written as  consequence \/ ~Update,  which is  Update => consequence)
C14_ScaleApplied ==
    [][\/ \A i \in 1..Len(drained') :
             LET f == drained'[i].field
             IN  ( /\ applied # <<>>
                   /\ f \in NumFields
                   /\ applied[1].label = LabelOf(f) )
                 => drained'[i].state = Delivered(f, applied[1].value)
       \/ ~Update]_vars

\* C14 witness: after "BASE 012345678" an update() call has delivered
\* 12345678 / 1000 for BASE, IINST having been delivered as 7 / 1.
C14_Witness ==
    /\ applied = << [label |-> BASE,
                     value |-> <<48, 49, 50, 51, 52, 53, 54, 55, 56>>] >>
    /\ sinceUpdate = "drained"
    /\ \E i \in 1..Len(drained) :
          drained[i] = [field |-> "base", state |-> [n |-> 12345678, d |-> 1000]]
    /\ pub["iinst"] = << [n |-> 7, d |-> 1] >>

\* C15: a record that differs by one bit of its last character from a record
\* processString accepts is rejected: processCommand is not called and no
\* value and no flag changes.
\* (after every call: no processCommand call for such a record; in every
\* call: no processCommand call, no change of the store)
C15_BitFlipRejected ==
    /\ [](\A k \in 0..7 :
            ( /\ handed # <<>>
              /\ ProcessString(FlipLast(handed, k), charSigned) # <<>> )
            => applied = <<>>)
    /\ [][(NextParse /\ applied' = <<>>)
            => (val' = val /\ updated' = updated)]_vars

\* C15 witness: "ADCO 1 H" with the high bit of H flipped was dropped in a
\* build with signed char, ADCO holding the 1 of the record accepted before.
C15_Witness ==
    /\ handed = FlipLast(Record(ADCO, <<49>>), 7)
    /\ ProcessString(Record(ADCO, <<49>>), charSigned) # <<>>
    /\ applied = <<>>
    /\ val["adco"] = <<49>>
    /\ charSigned

\* the payload is a decimal number
IsNumber(payload) ==
    /\ payload # <<>>
    /\ \A i \in 1..Len(payload) : IsDigit(payload[i])

\* the payload starts with a decimal number
StartsWithNumber(payload) == payload # <<>> /\ IsDigit(payload[1])

\* the record applied is taken as the value 0 for numeric field f: stored
\* with the flag set if the field held another value, nothing otherwise
TakenAsZero(f) ==
    IF val[f] = 0
    THEN val' = val /\ updated' = updated
    ELSE /\ val' = [val EXCEPT ![f] = 0]
         /\ updated' = [updated EXCEPT ![f] = TRUE]

-----------------------------------------------------------------------------
(* The framer, one loop() call at a time *)

HasCR(bytes) == ~NoCR(bytes)

FirstCR(bytes) ==
    CHOOSE i \in 1..Len(bytes) :
        bytes[i] = CR /\ \A j \in 1..(i - 1) : bytes[j] # CR

\* the bytes before the first '\r', all of them if there is none
BeforeCR(bytes) ==
    IF HasCR(bytes) THEN SubSeq(bytes, 1, FirstCR(bytes) - 1) ELSE bytes

\* the bytes after the first '\r', none if there is none
AfterCR(bytes) ==
    IF HasCR(bytes) THEN SubSeq(bytes, FirstCR(bytes) + 1, Len(bytes))
    ELSE <<>>

NoLF(bytes) == \A i \in 1..Len(bytes) : bytes[i] # LF

\* the bytes after the last '\n', all of them if there is none
AfterLastLF(bytes) ==
    IF NoLF(bytes) THEN bytes
    ELSE LET last == CHOOSE i \in 1..Len(bytes) :
                         bytes[i] = LF /\ \A j \in (i + 1)..Len(bytes) : bytes[j] # LF
         IN  SubSeq(bytes, last + 1, Len(bytes))

\* the last n elements of s
LastOf(s, n) == SubSeq(s, Len(s) - n + 1, Len(s))

IsSuffix(a, b) == Len(a) <= Len(b) /\ LastOf(b, Len(a)) = a

\* a loop() call that reads
Reads == enable /\ Loop

\* C16: every record handed to processString has 1 to 50 characters; the
\* buffer is cleared each time it reaches 51 characters and goes on from
\* there, so a loop() call hands over what is left of the line after its
\* last full run of 51; a '\r' read on an empty buffer hands nothing over
\* and changes no value and no flag.
\* (written as  consequence \/ ~Reads,  which is  Reads => consequence)
C16_RecordLength ==
    [][\/ LET line == AfterLastLF(BeforeCR(rx))
          IN  /\ Len(handed') <= 50
              /\ \A i \in 1..Len(recs') : Len(recs'[i]) \in 1..50
              /\ handed' = LastOf(line, Len(line) % 51)
              /\ (Len(line) % 51 = 0 /\ HasCR(rx))
                    => /\ handed' = <<>>
                       /\ applied' = <<>>
                       /\ recs' = recs
                       /\ val' = val
                       /\ updated' = updated
       \/ ~Reads]_vars

\* C16 witness: after 51 characters and "ADCO 1 H\r", which stored ADCO,
\* the two bytes of "\r\r" have been read and nothing was handed over.
C16_Witness ==
    /\ val["adco"] = <<49>>
    /\ nsent = 2
    /\ fed = <<CR, CR>>
    /\ rx = <<>>
    /\ wire = <<>>
    /\ recs = <<>>
    /\ handed = <<>>

\* C17: a record handed to processString holds no '\n', no '\r', and
\* nothing that was read before the last '\n': it is the end of what follows
\* the last '\n' among the bytes read by the loop() call.
C17_NewlineResets ==
    [][\/ /\ NoLF(handed')
          /\ NoCR(handed')
          /\ IsSuffix(handed', AfterLastLF(BeforeCR(rx)))
          /\ \A i \in 1..Len(recs') : NoLF(recs'[i]) /\ NoCR(recs'[i])
       \/ ~Reads]_vars

\* C17 witness: of "XY\nBASE 7 R\r" the record "BASE 7 R" was handed over
\* and stored.
C17_Witness ==
    /\ fed = <<88, 89, LF>> \o Record(BASE, <<55>>) \o <<CR>>
    /\ recs = << Record(BASE, <<55>>) >>
    /\ handed = Record(BASE, <<55>>)
    /\ val["base"] = 7

\* C19: a loop() call made while enable is true hands at most one record to
\* processString and leaves in the UART, in order, every byte that follows
\* the first '\r' (nothing if there is no '\r').
C19_OneRecordPerLoop ==
    [][\/ /\ rx' = AfterCR(rx)
          /\ recs' \in {recs, Append(recs, handed')}
       \/ ~Reads]_vars

\* C19 witness: of "ADCO 1 H\rBASE 7 R\r" one loop() call has handed over
\* "ADCO 1 H" and left "BASE 7 R\r" in the UART.
C19_Witness ==
    /\ fed = Record(ADCO, <<49>>) \o <<CR>> \o Record(BASE, <<55>>) \o <<CR>>
    /\ recs = << Record(ADCO, <<49>>) >>
    /\ handed = Record(ADCO, <<49>>)
    /\ rx = Record(BASE, <<55>>) \o <<CR>>
    /\ val["base"] = 0

-----------------------------------------------------------------------------
(* The store and the sensors *)

\* the state of the sensor of field f that shows the value v
Shown(f, v) ==
    IF f \in TextFields THEN [s |-> v]
    ELSE [n |-> v, d |-> IF f \in EnergyIndexFields THEN 1000 ELSE 1]

\* C20: in every state, a field whose flag is false holds the value last
\* published for it (divided by 1000 for the energy indexes), or its
\* initial value, 0 or "", if nothing was published for it yet.
C20_CleanMatchesSink ==
    \A f \in Fields :
        ~updated[f] =>
            IF pub[f] = <<>> THEN val[f] = InitVal[f]
            ELSE pub[f][1] = Shown(f, val[f])

\* C20 witness: the switch is off, base holds the 7 that was published and
\* its flag is false, adco holds a value newer than the published one and
\* its flag is true.
C20_Witness ==
    /\ ~enable
    /\ pub["base"] = << [n |-> 7, d |-> 1000] >>
    /\ val["base"] = 7
    /\ ~updated["base"]
    /\ pub["adco"] = << [s |-> <<49>>] >>
    /\ val["adco"] = <<50>>
    /\ updated["adco"]

\* no value other than the initial one was ever stored in field f: it holds
\* its initial value, its flag is false and its sensor was given nothing
Pristine(f) == val[f] = InitVal[f] /\ ~updated[f] /\ pub[f] = <<>>

\* this step calls processCommand for field f with a value that is not the
\* initial one
AppliesOther(f) ==
    /\ applied' # <<>>
    /\ applied'[1].label = LabelOf(f)
    /\ NewValue(f, applied'[1].value) # InitVal[f]
    /\ Loop

\* field f is among the fields the drain d publishes
Drained(f, d) == \E i \in 1..Len(d) : d[i].field = f

\* C21: as long as the values applied to a field are its initial value (a
\* payload that reads as 0 for a numeric label, the empty string for a text
\* label), the field is not flagged and no update() call publishes it: only
\* a processCommand call with another value ends this.
C21_DefaultNotPublished ==
    [][\A f \in Fields :
          Pristine(f) =>
              \/ /\ val'[f] = InitVal[f]
                 /\ ~updated'[f]
                 /\ pub'[f] = <<>>
                 /\ ~Drained(f, drained')
              \/ AppliesOther(f)]_vars

\* C21 witness: "BASE 00" was validated and applied, the last of three
\* transmissions, an update() call made while enable is true has followed
\* and has published nothing: base and adco are neither flagged nor
\* published.
C21_Witness ==
    /\ applied = << [label |-> BASE, value |-> <<48, 48>>] >>
    /\ recs = << Record(BASE, <<48, 48>>) >>
    /\ nsent = 3
    /\ sinceUpdate = "drained"
    /\ drained = <<>>
    /\ Pristine("base")
    /\ Pristine("adco")

====
